---- MODULE Spec2Model ----
(***************************************************************************)
(* Model of the column downloader (downloadTheColumn.py), of the single    *)
(* article converter (downloadSpecArticle.py) where it differs, and of the *)
(* pagination orchestrator described in spec.md section 4.7.               *)
(*                                                                         *)
(* Text is modelled as a sequence of tokens (one-character strings, or one *)
(* string standing for a fixed run of characters such as the word          *)
(* "assets", the site origin or a half of the notice phrase).              *)
(***************************************************************************)
EXTENDS Naturals, Sequences, FiniteSets

VARIABLES
  pc,            \* position of download_column / process_article
  dirs,          \* TRUE once output_dir and output_dir/assets exist
  listing,       \* the listing response parsed by get_article_list
  article_urls,  \* the list get_article_list returned
  index,         \* loop index of download_column (1-based)
  attempted,     \* URLs whose page fetch was started, in order
  returned,      \* results of process_article, in order
  delays,        \* time.sleep calls issued: [after, secs]
  saved,         \* the Markdown files written: [index, file]
  url,           \* ArticleProcessor.url / HTMLToMarkdownConverter.url
  soup,          \* the parsed article page
  title,         \* result of get_title
  content,       \* article_content (decompose mutates it in place)
  markdown,      \* markdown_content
  img_i,         \* position in cleaned_content.find_all('img')
  dl,            \* download_image results of the current article, in order
  flow,          \* "column" (downloadTheColumn) or "single" (downloadSpecArticle)
  pag_state,     \* pagination orchestrator: Start, FetchingArticle, Done, Aborted
  pag_url,       \* pagination: the URL being fetched
  visited,       \* pagination: the visited set
  next_of,       \* pagination: the site's next-page links
  pag_saved      \* pagination: the URLs whose article was saved

crawl_vars == <<pc, dirs, listing, article_urls, index, attempted, returned, delays, saved>>
article_vars == <<url, soup, title, content, markdown, img_i, dl, flow>>
pag_vars == <<pag_state, pag_url, visited, next_of, pag_saved>>
vars == <<crawl_vars, article_vars, pag_vars>>

(***************************************************************************)
(* Bounds of the model.                                                    *)
(***************************************************************************)
MaxMenuItems == 4
MaxChildren == 3
MaxTitleLen == 3
MaxPagUrls == 3

(***************************************************************************)
(* Strings.                                                                *)
(***************************************************************************)
RECURSIVE Concat(_)
Concat(ss) == IF ss = <<>> THEN <<>> ELSE Head(ss) \o Concat(Tail(ss))

\* Python's "sub in s".
Contains(s, sub) ==
  \E i \in 1..(Len(s) + 1) :
    /\ i + Len(sub) - 1 <= Len(s)
    /\ SubSeq(s, i, i + Len(sub) - 1) = sub

\* s.find(old) + 1 for a non-empty old: the first place where old stands in
\* s, 0 when there is none.
FirstMatch(s, old) ==
  LET M == {i \in 1..Len(s) : i + Len(old) - 1 <= Len(s) /\ SubSeq(s, i, i + Len(old) - 1) = old}
  IN IF M = {} THEN 0 ELSE CHOOSE i \in M : \A j \in M : i <= j

\* s.replace("", new): new before every character and at the end.
Interleave(s, new) ==
  LET L == Len(new)
  IN [k \in 1..(Len(s) * (L + 1) + L) |->
        IF (k - 1) % (L + 1) < L THEN new[((k - 1) % (L + 1)) + 1]
        ELSE s[((k - 1) \div (L + 1)) + 1]]

\* Python's s.replace(old, new): every non-overlapping occurrence, left to
\* right; an empty old matches before every character and at the end.
RECURSIVE Replace(_, _, _)
Replace(s, old, new) ==
  IF old = <<>> THEN Interleave(s, new)
  ELSE LET m == FirstMatch(s, old)
       IN IF m = 0 THEN s
          ELSE SubSeq(s, 1, m - 1) \o new \o Replace(SubSeq(s, m + Len(old), Len(s)), old, new)

\* Index of the last "/" of s, 0 when there is none (p.rfind('/') + 1).
LastSlash(s) ==
  LET idx == {i \in 1..Len(s) : s[i] = "/"}
  IN IF idx = {} THEN 0 ELSE CHOOSE i \in idx : \A j \in idx : j <= i

\* os.path.basename (posixpath).
Basename(s) == SubSeq(s, LastSlash(s) + 1, Len(s))

IsSpace(c) == c \in {" ", "\n", "\t"}

RECURSIVE LStrip(_)
LStrip(s) == IF s # <<>> /\ IsSpace(Head(s)) THEN LStrip(Tail(s)) ELSE s

RECURSIVE RStrip(_)
RStrip(s) ==
  IF s # <<>> /\ IsSpace(s[Len(s)]) THEN RStrip(SubSeq(s, 1, Len(s) - 1)) ELSE s

\* str.strip()
Strip(s) == RStrip(LStrip(s))

\* Sequences over S of length at most n.
SeqsUpTo(S, n) == UNION {[1..k -> S] : k \in 0..n}

(***************************************************************************)
(* URLs. A URL is a token sequence whose first token is its origin (scheme *)
(* and authority); a reference that starts with "/" is site-relative, any  *)
(* other non-empty reference is relative to the base's directory. The      *)
(* references of the model hold no dot segment, query or fragment.         *)
(***************************************************************************)
Site == "https://learn.lianglianglee.com"
Origins == {Site}

base_url == <<Site, "/">>

\* urllib.parse.urljoin
UrlJoin(base, ref) ==
  IF ref = <<>> THEN base
  ELSE IF Head(ref) \in Origins THEN ref
  ELSE IF Head(ref) = "/" THEN <<Head(base)>> \o ref
  ELSE IF LastSlash(base) = 0 THEN <<Head(base), "/">> \o ref
  ELSE SubSeq(base, 1, LastSlash(base)) \o ref

(***************************************************************************)
(* Attributes: tag.get(name) is None when the attribute is absent.         *)
(***************************************************************************)
Attr(v) == [present |-> TRUE, val |-> v]
NoAttr == [present |-> FALSE, val |-> <<>>]

(***************************************************************************)
(* The listing page of a column, as get_article_list queries it: whether   *)
(* the GET succeeded, whether the div "book-menu uncollapsible" is there,  *)
(* and the ul and a elements inside it in document order (an a belongs to  *)
(* the nearest ul before it; the lists of the model are siblings).         *)
(***************************************************************************)
\* The two characters of the donation marker.
Donation == <<"juan", "zeng">>

Ul(class) == [kind |-> "ul", class |-> class, href |-> NoAttr]
A(class, href) == [kind |-> "a", class |-> class, href |-> href]

MenuItems ==
  { Ul("uncollapsible"), Ul("other"),
    A("menu-item", Attr(<<"/", "a">>)),
    A("menu-item", Attr(<<"b">>)),
    A("menu-item", Attr(<<"/">> \o Donation)),
    A("menu-item", Attr(<<>>)),
    A("menu-item", NoAttr),
    A("other", Attr(<<"/", "c">>)) }

ListingResponses ==
  {[ok |-> FALSE, menu |-> FALSE, items |-> <<>>],
   [ok |-> TRUE, menu |-> FALSE, items |-> <<>>]}
  \cup {[ok |-> TRUE, menu |-> TRUE, items |-> s] : s \in SeqsUpTo(MenuItems, MaxMenuItems)}

NoListing == [ok |-> FALSE, menu |-> FALSE, items |-> <<>>]

\* book_menu.find_all('ul', {'class': 'uncollapsible'}), as positions.
AllUls(items) ==
  {i \in 1..Len(items) : items[i].kind = "ul" /\ items[i].class = "uncollapsible"}

\* A plausible slip: the first qualifying list instead of the last.
LastUl_First(items) == CHOOSE i \in AllUls(items) : \A j \in AllUls(items) : i <= j

\* all_uls[-1]
LastUl(items) == CHOOSE i \in AllUls(items) : \A j \in AllUls(items) : j <= i

\* The elements inside the ul at position p: up to the next ul.
UlBody(items, p) ==
  LET later == {i \in (p + 1)..Len(items) : items[i].kind = "ul"}
      stop == IF later = {} THEN Len(items) + 1
              ELSE CHOOSE i \in later : \A j \in later : i <= j
  IN SubSeq(items, p + 1, stop - 1)

\* article_list.find_all('a', {'class': 'menu-item'})
MenuLinks(body) == SelectSeq(body, LAMBDA it : it.kind = "a" /\ it.class = "menu-item")

\* A plausible slip: the donation links are not left out.
KeepHref_NoMarker(href) == href.present /\ href.val # <<>>

\* if href and <marker> not in href
KeepHref(href) == href.present /\ href.val # <<>> /\ ~Contains(href.val, Donation)

\* The for loop of get_article_list over the menu-item links.
CollectArticles(links) ==
  LET kept == SelectSeq(links, LAMBDA it : KeepHref(it.href))
  IN [i \in 1..Len(kept) |-> UrlJoin(base_url, kept[i].href.val)]

\* ColumnDownloader.get_article_list: every failure gives the empty list.
ArticleList(resp) ==
  IF ~resp.ok THEN <<>>
  ELSE IF ~resp.menu THEN <<>>
  ELSE IF AllUls(resp.items) = {} THEN <<>>
  ELSE CollectArticles(MenuLinks(UlBody(resp.items, LastUl(resp.items))))

(***************************************************************************)
(* An article page: whether the GET succeeded, the text of h1#title (or    *)
(* its absence), and the direct children of div.book-post (or its          *)
(* absence). A child is a text node, a p, a div or an img; a div or p      *)
(* holds text nodes (pieces).                                              *)
(***************************************************************************)
Notice == <<"notice-1", "notice-2">>

Node(tag, align, pieces, src) == [tag |-> tag, align |-> align, pieces |-> pieces, src |-> src]
Text(t) == Node("text", NoAttr, <<t>>, NoAttr)
Div(align, pieces) == Node("div", align, pieces, NoAttr)
Img(src) == Node("img", NoAttr, <<>>, src)

Page(ok, heading, post) == [ok |-> ok, title |-> heading, post |-> post]
NoSoup == Page(FALSE, NoAttr, NoAttr)

\* get_text(strip=True): every text node stripped, the empty ones dropped.
GetTextStrip(node) == Concat([i \in 1..Len(node.pieces) |-> Strip(node.pieces[i])])

\* A plausible slip: only the very first child is looked at.
FirstDiv_FirstChild(c) == IF c # <<>> /\ c[1].tag = "div" THEN 1 ELSE 0

\* article_content.find('div', recursive=False), as a position (0: None).
FirstDiv(c) ==
  LET ds == {i \in 1..Len(c) : c[i].tag = "div"}
  IN IF ds = {} THEN 0 ELSE CHOOSE i \in ds : \A j \in ds : i <= j

RemoveAt(c, i) == SubSeq(c, 1, i - 1) \o SubSeq(c, i + 1, Len(c))

\* clean_content
CleanContent(c) ==
  LET d == FirstDiv(c)
  IN IF d # 0 /\ c[d].align = Attr(<<"center">>) /\ Contains(GetTextStrip(c[d]), Notice)
     THEN RemoveAt(c, d)
     ELSE c

\* html2text on one child: an image is ![](src), emitted only when the img
\* has a src attribute; a block ends its line.
NodeMarkdown(n) ==
  IF n.tag = "img"
  THEN IF n.src.present THEN <<"!", "[", "]", "(">> \o n.src.val \o <<")">> ELSE <<>>
  ELSE IF n.tag = "text" THEN Concat(n.pieces)
  ELSE Concat(n.pieces) \o <<"\n">>

\* h.handle(str(cleaned_content))
Convert(c) == Concat([i \in 1..Len(c) |-> NodeMarkdown(c[i])])

\* cleaned_content.find_all('img')
Images(c) == SelectSeq(c, LAMBDA n : n.tag = "img")

\* img.get('src', '')
SrcOrEmpty(img) == IF img.src.present THEN img.src.val ELSE <<>>

\* urljoin(self.url, img.get('src', ''))
ImgUrl(u, img) == UrlJoin(u, SrcOrEmpty(img))

\* download_image: False on any exception; open() of assets_dir itself (an
\* empty file name) raises.
DownloadImage(filename, net_ok) == net_ok /\ filename # <<>>

\* f"./assets/{img_filename}".replace('\\', '/')
RelativePath(filename) == Replace(<<".", "/", "assets", "/">> \o filename, <<"\\">>, <<"/">>)

\* markdown_content.replace(img['src'], relative_path)
Localize(md, img, filename) == Replace(md, img.src.val, RelativePath(filename))

(***************************************************************************)
(* Titles.                                                                 *)
(***************************************************************************)
AlnumChars ==
  {"H", "e", "l", "o", "W", "r", "d", "C", "h", "a", "p", "t", "1", "T", "q", "untitled"}

\* A plausible slip: '-' and '_' are dropped too.
KeepTitleChar_NoDash(c) == c \in AlnumChars \/ IsSpace(c)

\* c.isalnum() or c.isspace() or c in '-_'
KeepTitleChar(c) == c \in AlnumChars \/ IsSpace(c) \/ c \in {"-", "_"}

\* "".join(c for c in title if ...)
Sanitize(s) == SelectSeq(s, KeepTitleChar)

\* urllib.parse.unquote, on the escapes the model's URLs hold.
UnquoteChar(c) == IF c = "%2F" THEN "/" ELSE IF c = "%20" THEN " " ELSE c
Unquote(s) == [i \in 1..Len(s) |-> UnquoteChar(s[i])]

\* urlparse(self.url).path: the URL without its origin.
UrlPath(u) == IF u = <<>> THEN <<>> ELSE Tail(u)

\* The except branch of ArticleProcessor.get_title.
TitleFromUrl(u) == Replace(Basename(Unquote(UrlPath(u))), <<".", "md">>, <<>>)

\* ArticleProcessor.get_title (downloadTheColumn.py)
GetTitleColumn(page, u) ==
  IF page.title.present THEN Sanitize(Strip(page.title.val)) ELSE TitleFromUrl(u)

\* HTMLToMarkdownConverter.get_title (downloadSpecArticle.py)
GetTitleSingle(page) ==
  IF page.title.present THEN Strip(page.title.val) ELSE <<"untitled">>

GetTitle(f, page, u) == IF f = "column" THEN GetTitleColumn(page, u) ELSE GetTitleSingle(page)

(***************************************************************************)
(* download_column and process_article.                                    *)
(***************************************************************************)
\* The pages an article URL may answer with during a crawl.
CrawlPages ==
  { Page(FALSE, NoAttr, NoAttr),
    Page(TRUE, Attr(<<"T">>), NoAttr),
    Page(TRUE, Attr(<<"T", "!">>), Attr(<<Text(<<"t">>)>>)),
    Page(TRUE, NoAttr, Attr(<<Div(Attr(<<"center">>), <<Notice>>), Img(Attr(<<"x">>))>>)),
    Page(TRUE, Attr(<<"T">>), Attr(<<Img(NoAttr)>>)),
    Page(TRUE, Attr(<<"T">>), Attr(<<Img(Attr(<<"i", "/", "x">>)), Img(Attr(<<"x">>))>>)) }

\* time.sleep(5)
SleepSecs == 5

PagIdle ==
  /\ pag_state = "Start"
  /\ pag_url = 0
  /\ visited = {}
  /\ next_of = <<>>
  /\ pag_saved = {}

ArticleIdle ==
  /\ url = <<>>
  /\ soup = NoSoup
  /\ title = <<>>
  /\ content = <<>>
  /\ markdown = <<>>
  /\ img_i = 0
  /\ dl = <<>>

\* The locals of process_article are gone once it returns.
DropArticle ==
  /\ url' = <<>>
  /\ soup' = NoSoup
  /\ title' = <<>>
  /\ content' = <<>>
  /\ markdown' = <<>>
  /\ img_i' = 0
  /\ dl' = <<>>

Init ==
  /\ pc = "start"
  /\ dirs = FALSE
  /\ listing = NoListing
  /\ article_urls = <<>>
  /\ index = 0
  /\ attempted = <<>>
  /\ returned = <<>>
  /\ delays = <<>>
  /\ saved = <<>>
  /\ flow = "column"
  /\ ArticleIdle
  /\ PagIdle

\* downloader.create_directories(): mkdir may raise (no parents=True, no try).
CreateDirectories ==
  /\ pc = "start"
  /\ \E ok \in BOOLEAN :
       IF ok THEN dirs' = TRUE /\ pc' = "list"
       ELSE dirs' = FALSE /\ pc' = "mkdir_error"
  /\ UNCHANGED <<listing, article_urls, index, attempted, returned, delays, saved>>
  /\ UNCHANGED <<article_vars, pag_vars>>

\* article_urls = downloader.get_article_list()
GetArticleList ==
  /\ pc = "list"
  /\ \E resp \in ListingResponses :
       /\ listing' = resp
       /\ article_urls' = ArticleList(resp)
  /\ pc' = "got_list"
  /\ UNCHANGED <<dirs, index, attempted, returned, delays, saved>>
  /\ UNCHANGED <<article_vars, pag_vars>>

\* if not article_urls: return; else the loop starts at index 1, and the
\* parsed listing (a local of get_article_list) is not kept any longer.
CheckArticles ==
  /\ pc = "got_list"
  /\ IF article_urls = <<>>
     THEN pc' = "returned_empty" /\ UNCHANGED <<index, listing>>
     ELSE pc' = "fetch" /\ index' = 1 /\ listing' = NoListing
  /\ UNCHANGED <<dirs, article_urls, attempted, returned, delays, saved>>
  /\ UNCHANGED <<article_vars, pag_vars>>

\* process_article returns result: back in the loop of download_column.
Return(result) ==
  /\ returned' = Append(returned, result)
  /\ pc' = "after"
  /\ DropArticle

\* ArticleProcessor(url, ...).process_article(): fetch_page
FetchPage ==
  /\ pc = "fetch"
  /\ attempted' = Append(attempted, article_urls[index])
  /\ \E page \in CrawlPages :
       IF page.ok
       THEN /\ url' = article_urls[index]
            /\ soup' = page
            /\ pc' = "extract"
            /\ UNCHANGED <<returned, title, content, markdown, img_i, dl>>
       ELSE Return(FALSE)
  /\ UNCHANGED <<dirs, listing, article_urls, index, delays, saved, flow, pag_vars>>

\* title = self.get_title(soup); article_content = soup.find(...)
Extract ==
  /\ pc = "extract"
  /\ IF soup.post.present
     THEN /\ title' = GetTitle(flow, soup, url)
          /\ content' = soup.post.val
          /\ pc' = "process_content"
          /\ UNCHANGED <<returned, url, soup, markdown, img_i, dl>>
     ELSE Return(FALSE)
  /\ UNCHANGED <<dirs, listing, article_urls, index, attempted, delays, saved, flow, pag_vars>>

\* process_content up to the image loop: clean_content, then h.handle
CleanAndConvert ==
  /\ pc = "process_content"
  /\ content' = CleanContent(content)
  /\ markdown' = Convert(content')
  /\ img_i' = 1
  /\ pc' = "images"
  /\ UNCHANGED <<dirs, listing, article_urls, index, attempted, returned, delays, saved>>
  /\ UNCHANGED <<url, soup, title, dl, flow, pag_vars>>

\* One iteration of the image loop. img['src'] raises KeyError when the img
\* has no src attribute, and nothing up to download_column catches it.
ImageStep ==
  /\ pc = "images"
  /\ img_i <= Len(Images(content))
  /\ \E net_ok \in BOOLEAN :
       LET img == Images(content)[img_i]
           filename == Basename(ImgUrl(url, img))
           ok == DownloadImage(filename, net_ok)
       IN /\ dl' = Append(dl, ok)
          /\ IF ok /\ ~img.src.present
             THEN pc' = "crashed" /\ UNCHANGED <<markdown, img_i>>
             ELSE /\ markdown' = IF ok THEN Localize(markdown, img, filename) ELSE markdown
                  /\ img_i' = img_i + 1
                  /\ pc' = pc
  /\ UNCHANGED <<dirs, listing, article_urls, index, attempted, returned, delays, saved>>
  /\ UNCHANGED <<url, soup, title, content, flow, pag_vars>>

\* return markdown_content
ReturnContent ==
  /\ pc = "images"
  /\ img_i > Len(Images(content))
  /\ pc' = "save"
  /\ UNCHANGED <<dirs, listing, article_urls, index, attempted, returned, delays, saved>>
  /\ UNCHANGED <<article_vars, pag_vars>>

\* save_markdown: open(output_dir / f"{title}.md", 'w') and write; IOError is
\* caught.
SaveMarkdown ==
  /\ pc = "save"
  /\ \E ok \in BOOLEAN :
       IF ok
       THEN /\ saved' = Append(saved, [index |-> index, file |-> title \o <<".", "md">>])
            /\ pc' = "written"
       ELSE /\ saved' = saved
            /\ pc' = "write_failed"
  /\ UNCHANGED <<dirs, listing, article_urls, index, attempted, returned, delays>>
  /\ UNCHANGED <<article_vars, pag_vars>>

\* return self.save_markdown(...): True when the file was written
ReturnSaved ==
  /\ pc \in {"written", "write_failed"}
  /\ Return(pc = "written")
  /\ UNCHANGED <<dirs, listing, article_urls, index, attempted, delays, saved, flow, pag_vars>>

\* if index < total_articles: time.sleep(5); then the next iteration, or
\* "Column download completed!" after the last.
AfterArticle ==
  /\ pc = "after"
  /\ IF index < Len(article_urls)
     THEN /\ delays' = Append(delays, [after |-> index, secs |-> SleepSecs])
          /\ index' = index + 1
          /\ pc' = "fetch"
     ELSE /\ pc' = "completed"
          /\ UNCHANGED <<delays, index>>
  /\ UNCHANGED <<dirs, listing, article_urls, attempted, returned, saved>>
  /\ UNCHANGED <<article_vars, pag_vars>>

Next ==
  \/ CreateDirectories
  \/ GetArticleList
  \/ CheckArticles
  \/ FetchPage
  \/ Extract
  \/ CleanAndConvert
  \/ ImageStep
  \/ ReturnContent
  \/ SaveMarkdown
  \/ ReturnSaved
  \/ AfterArticle

Spec == Init /\ [][Next]_vars

(***************************************************************************)
(* Properties of download_column (checked under Spec).                     *)
(***************************************************************************)
Terminal == pc \in {"completed", "crashed"}

\* process_article has been entered and has not returned.
InArticle == {"extract", "process_content", "images", "save", "written", "write_failed", "crashed"}

\* The position of the last ul of class uncollapsible, 0 when there is none,
\* stated directly on the listing.
LastQualifying(items) ==
  IF \E i \in 1..Len(items) : items[i] = Ul("uncollapsible")
  THEN CHOOSE i \in 1..Len(items) :
         /\ items[i] = Ul("uncollapsible")
         /\ \A j \in (i + 1)..Len(items) : items[j] # Ul("uncollapsible")
  ELSE 0

\* The positions of the menu-item links of the last qualifying sub-list
\* whose href passes keep.
LinkPositions(items, keep(_)) ==
  LET p == LastQualifying(items)
  IN IF p = 0 THEN {}
     ELSE {i \in (p + 1)..Len(items) :
             /\ \A j \in (p + 1)..i : items[j].kind # "ul"
             /\ items[i].kind = "a"
             /\ items[i].class = "menu-item"
             /\ keep(items[i].href)}

\* The k-th smallest element of a set of positions.
Kth(S, k) == CHOOSE i \in S : Cardinality({j \in S : j <= i}) = k

\* A site-relative or relative href against https://learn.lianglianglee.com/
Resolved(h) == IF Head(h) = "/" THEN <<Site>> \o h ELSE <<Site, "/">> \o h

\* get_article_list returned the links at the positions LinkPositions gives,
\* in document order, resolved.
ReturnsLinks(keep(_)) ==
  LET S == LinkPositions(listing.items, keep)
  IN /\ Len(article_urls) = Cardinality(S)
     /\ \A k \in 1..Len(article_urls) :
          article_urls[k] = IF listing.items[Kth(S, k)].href.val = <<>> THEN base_url
                            ELSE Resolved(listing.items[Kth(S, k)].href.val)

HasHrefNoMarker(h) == h.present /\ ~Contains(h.val, Donation)
NonEmptyHrefNoMarker(h) == h.present /\ h.val # <<>> /\ ~Contains(h.val, Donation)

\* C7 as claimed: get_article_list returns, in document order, exactly the
\* menu-item links of the last qualifying sub-list, resolved against the base
\* URL, leaving out the links whose href holds the donation marker and the
\* links without an href, and keeping every other link.
Claim_C7 ==
  (pc = "got_list" /\ listing.ok /\ listing.menu) => ReturnsLinks(HasHrefNoMarker)

\* C7 as amended: the same, and a link whose href is empty is left out too.
Thm_C7 ==
  (pc = "got_list" /\ listing.ok /\ listing.menu) => ReturnsLinks(NonEmptyHrefNoMarker)

\* Two qualifying sub-lists, the earlier one with a link that would be kept,
\* and a non-empty result taken from the last.
Wit_C7 ==
  /\ pc = "got_list"
  /\ listing.ok /\ listing.menu
  /\ Cardinality(AllUls(listing.items)) >= 2
  /\ \E i \in 1..Len(listing.items) :
       /\ i < LastQualifying(listing.items)
       /\ listing.items[i].kind = "a"
       /\ listing.items[i].class = "menu-item"
       /\ NonEmptyHrefNoMarker(listing.items[i].href)
  /\ article_urls # <<>>

\* The listing gives no article: the GET failed, the menu container or every
\* qualifying sub-list is absent, or no link of the last one qualifies.
ListingFailed(l) ==
  \/ ~l.ok
  \/ ~l.menu
  \/ LastQualifying(l.items) = 0
  \/ LinkPositions(l.items, NonEmptyHrefNoMarker) = {}

\* C2: on a listing-level failure get_article_list returns the empty list
\* without raising, and with an empty list download_column returns at once:
\* no article page fetched, no Markdown written, no delay issued.
Thm_C2 ==
  /\ (pc \in {"got_list", "returned_empty"} /\ ListingFailed(listing)) => article_urls = <<>>
  /\ article_urls = <<>> =>
       /\ pc \in {"start", "mkdir_error", "list", "got_list", "returned_empty"}
       /\ attempted = <<>> /\ returned = <<>> /\ saved = <<>> /\ delays = <<>>

\* download_column has returned after a listing whose last qualifying
\* sub-list holds only links that do not qualify.
Wit_C2 ==
  /\ pc = "returned_empty"
  /\ listing.ok /\ listing.menu
  /\ LastQualifying(listing.items) # 0
  /\ \E i \in 1..Len(listing.items) :
       i > LastQualifying(listing.items) /\ listing.items[i].kind = "a"
  /\ attempted = <<>>

\* C1 as claimed: whatever fails in an article (page fetch, missing content
\* container, image processing, Markdown write), no error escapes
\* download_column, and a crawl that ends has attempted every URL of the list
\* and has got a result for each.
Claim_C1 ==
  /\ pc # "crashed"
  /\ pc = "completed" => (attempted = article_urls /\ Len(returned) = Len(article_urls))

\* C5 as claimed: a crawl over N >= 1 articles issues exactly N-1 delays of
\* five units, the k-th after article k, none after the last.
Claim_C5 ==
  (Terminal /\ Len(article_urls) >= 1) =>
    /\ Len(delays) = Len(article_urls) - 1
    /\ \A k \in 1..Len(delays) : delays[k] = [after |-> k, secs |-> 5]

\* What holds of the delays in every run, also one cut short: five units
\* each, the k-th after article k returned and before article k+1 is fetched,
\* none after the last article; N-1 of them when the crawl completes.
Delays_C5 ==
  /\ \A k \in 1..Len(delays) : delays[k] = [after |-> k, secs |-> 5]
  /\ Len(delays) = IF index = 0 THEN 0 ELSE index - 1
  /\ Len(delays) < Len(article_urls) \/ article_urls = <<>>
  /\ Len(attempted) <= Len(delays) + 1
  /\ (pc = "completed") => Len(delays) = Len(article_urls) - 1

\* C6 as claimed: the articles are processed in list order, each entry
\* exactly once, article N+1 is not fetched before article N has completed,
\* and the directories exist before the first fetch.
Claim_C6 ==
  /\ Len(attempted) <= Len(article_urls)
  /\ \A k \in 1..Len(attempted) : attempted[k] = article_urls[k]
  /\ Len(attempted) <= Len(returned) + 1
  /\ Len(attempted) > Len(returned) => pc \in InArticle
  /\ attempted # <<>> => dirs
  /\ Terminal => attempted = article_urls

\* What holds of the order in every run: the fetches follow the list, one
\* article at a time, after the directories exist; all of the list when the
\* crawl completes.
Order_C6 ==
  /\ Len(attempted) <= Len(article_urls)
  /\ \A k \in 1..Len(attempted) : attempted[k] = article_urls[k]
  /\ Len(attempted) <= Len(returned) + 1
  /\ Len(attempted) > Len(returned) => pc \in InArticle
  /\ attempted # <<>> => dirs
  /\ pc = "completed" => (attempted = article_urls /\ Len(returned) = Len(article_urls))

(***************************************************************************)
(* process_content on its own: every content container of at most          *)
(* MaxChildren children, the article at ArticleUrl.                        *)
(***************************************************************************)
ArticleUrl == <<Site, "/", "d", "/", "p">>

ContentNodes ==
  { Text(<<"x">>),
    Div(Attr(<<"center">>), <<Notice>>),
    Div(Attr(<<"center">>), <<<<"u">>>>),
    Div(Attr(<<"left">>), <<Notice>>),
    Div(Attr(<<"center">>), <<<<"notice-1", " ">>, <<"notice-2">>>>),
    Img(Attr(<<"x">>)),
    Img(Attr(<<"assets", "/", "x">>)),
    Img(Attr(<<"i", "/", "x">>)),
    Img(NoAttr) }

Contents == SeqsUpTo(ContentNodes, MaxChildren)

InitContent ==
  /\ pc = "process_content"
  /\ dirs = TRUE
  /\ listing = NoListing
  /\ article_urls = <<ArticleUrl>>
  /\ index = 1
  /\ attempted = <<ArticleUrl>>
  /\ returned = <<>>
  /\ delays = <<>>
  /\ saved = <<>>
  /\ flow = "column"
  /\ url = ArticleUrl
  /\ soup \in {Page(TRUE, Attr(<<"T">>), Attr(c)) : c \in Contents}
  /\ title = <<"T">>
  /\ content = soup.post.val
  /\ markdown = <<>>
  /\ img_i = 0
  /\ dl = <<>>
  /\ PagIdle

NextContent ==
  \/ CleanAndConvert
  \/ ImageStep
  \/ ReturnContent

SpecContent == InitContent /\ [][NextContent]_vars

(***************************************************************************)
(* Properties of process_content (checked under SpecContent).              *)
(***************************************************************************)
\* The image references of a Markdown text, in order: what stands between
\* each "(" and the next ")".
RECURSIVE Refs(_)
Refs(md) ==
  LET opens == {i \in 1..Len(md) : md[i] = "("}
  IN IF opens = {} THEN <<>>
     ELSE LET o == CHOOSE i \in opens : \A j \in opens : i <= j
              closes == {i \in (o + 1)..Len(md) : md[i] = ")"}
              c == CHOOSE i \in closes : \A j \in closes : i <= j
          IN <<SubSeq(md, o + 1, c - 1)>> \o Refs(SubSeq(md, c + 1, Len(md)))

\* The place among the references of the j-th image: images without a src
\* attribute have no reference.
RefIndex(imgs, j) == Cardinality({k \in 1..j : imgs[k].src.present})

\* The last path segment of a src.
LastSegment(src) ==
  IF \E i \in 1..Len(src) : src[i] = "/"
  THEN SubSeq(src, (CHOOSE i \in 1..Len(src) :
                      src[i] = "/" /\ \A j \in (i + 1)..Len(src) : src[j] # "/") + 1, Len(src))
  ELSE src

\* C3 as claimed: when process_content returns, the reference of every image
\* whose download failed (and whose src no downloaded image shares) is its
\* original src, whatever happened to the other images of the article.
Claim_C3 ==
  pc = "save" =>
    \A j \in 1..Len(dl) :
      LET imgs == Images(content)
      IN (/\ imgs[j].src.present
          /\ ~dl[j]
          /\ \A k \in 1..Len(dl) : dl[k] => imgs[k].src # imgs[j].src) =>
           Refs(markdown)[RefIndex(imgs, j)] = imgs[j].src.val

\* C4 as claimed: when process_content returns, the reference of every image
\* whose download succeeded is exactly ./assets/<basename>, also when the
\* same src stands in a second img element and is localized again.
Claim_C4 ==
  pc = "save" =>
    \A j \in 1..Len(dl) :
      LET imgs == Images(content)
      IN (imgs[j].src.present /\ imgs[j].src.val # <<>> /\ dl[j]) =>
           Refs(markdown)[RefIndex(imgs, j)] =
             <<".", "/", "assets", "/">> \o LastSegment(imgs[j].src.val)

\* The content after clean_content is the container as parsed with the
\* child at position d removed (d = 0: nothing removed).
Removed(d) ==
  LET o == soup.post.val
  IN IF d = 0 THEN content = o
     ELSE /\ Len(content) = Len(o) - 1
          /\ \A i \in 1..Len(content) : content[i] = IF i < d THEN o[i] ELSE o[i + 1]

Cleaned == pc \in {"images", "save", "crashed"}

\* C8 as claimed: clean looks at the direct first child only, and removes it
\* if and only if it is a center-aligned div whose text holds the notice
\* phrase; otherwise the tree is unchanged.
Claim_C8 ==
  Cleaned =>
    LET o == soup.post.val
    IN IF /\ o # <<>>
          /\ o[1].tag = "div"
          /\ o[1].align = Attr(<<"center">>)
          /\ Contains(GetTextStrip(o[1]), Notice)
       THEN Removed(1)
       ELSE Removed(0)

\* C8 as amended: clean looks at the first direct child that is a div,
\* wherever it stands among the children, and removes it if and only if its
\* align is center and its text (every text node stripped, then joined)
\* holds the notice phrase; otherwise the tree is unchanged.
Thm_C8 ==
  Cleaned =>
    LET o == soup.post.val
        divs == {i \in 1..Len(o) : o[i].tag = "div"}
    IN IF divs = {} THEN Removed(0)
       ELSE LET d == CHOOSE i \in divs : \A j \in divs : i <= j
                text == Concat([k \in 1..Len(o[d].pieces) |-> Strip(o[d].pieces[k])])
            IN IF o[d].align.present /\ o[d].align.val = <<"center">> /\ Contains(text, Notice)
               THEN Removed(d)
               ELSE Removed(0)

\* A notice div that was removed though a text node stands before it.
Wit_C8 ==
  /\ Cleaned
  /\ Len(soup.post.val) >= 2
  /\ soup.post.val[1].tag = "text"
  /\ Len(content) = Len(soup.post.val) - 1
  /\ content[1] = soup.post.val[1]

(***************************************************************************)
(* get_title and save_markdown on their own, in both flows: every heading  *)
(* of at most MaxTitleLen characters, and the heading of the spec's        *)
(* example.                                                                *)
(***************************************************************************)
TitleChars == {"a", " ", "-", "_", "!", "/"}

ExampleHeading ==
  <<"H", "e", "l", "l", "o", ",", " ", "W", "o", "r", "l", "d", "!", " ", "/", " ",
    "C", "h", "a", "p", "t", "e", "r", "-", "1", "_">>

Headings ==
  {NoAttr, Attr(ExampleHeading)} \cup {Attr(h) : h \in SeqsUpTo(TitleChars, MaxTitleLen)}

TitleUrls ==
  { <<Site, "/", "d", "/", "p", ".", "md">>,
    <<Site, "/", "d", "%2F", "q", ".", "md">> }

InitTitle ==
  /\ pc = "extract"
  /\ dirs = TRUE
  /\ listing = NoListing
  /\ url \in TitleUrls
  /\ article_urls = <<url>>
  /\ index = 1
  /\ attempted = <<url>>
  /\ returned = <<>>
  /\ delays = <<>>
  /\ saved = <<>>
  /\ flow \in {"column", "single"}
  /\ soup \in {Page(TRUE, h, Attr(<<>>)) : h \in Headings}
  /\ title = <<>>
  /\ content = <<>>
  /\ markdown = <<>>
  /\ img_i = 0
  /\ dl = <<>>
  /\ PagIdle

NextTitle ==
  \/ Extract
  \/ CleanAndConvert
  \/ ReturnContent
  \/ SaveMarkdown
  \/ ReturnSaved

SpecTitle == InitTitle /\ [][NextTitle]_vars

(***************************************************************************)
(* Properties of the title (checked under SpecTitle).                      *)
(***************************************************************************)
AllowedChars == AlnumChars \cup {" ", "\n", "\t", "-", "_"}

\* s with every character that is not allowed dropped.
RECURSIVE DropOthers(_)
DropOthers(s) ==
  IF s = <<>> THEN <<>>
  ELSE IF Head(s) \in AllowedChars THEN <<Head(s)>> \o DropOthers(Tail(s))
  ELSE DropOthers(Tail(s))

\* s without its leading and trailing whitespace.
Trimmed(s) ==
  LET ink == {i \in 1..Len(s) : s[i] \notin {" ", "\n", "\t"}}
  IN IF ink = {} THEN <<>>
     ELSE SubSeq(s, CHOOSE i \in ink : \A j \in ink : i <= j,
                    CHOOSE i \in ink : \A j \in ink : j <= i)

\* "Hello World Chapter-1_"
ExampleClaimed ==
  <<"H", "e", "l", "l", "o", " ", "W", "o", "r", "l", "d", " ",
    "C", "h", "a", "p", "t", "e", "r", "-", "1", "_">>

\* "Hello World  Chapter-1_": the spaces on both sides of the "/" stay.
ExampleActual ==
  <<"H", "e", "l", "l", "o", " ", "W", "o", "r", "l", "d", " ", " ",
    "C", "h", "a", "p", "t", "e", "r", "-", "1", "_">>

\* The name of the file written last.
LastFile == saved[Len(saved)].file

\* C9 as claimed: in every flow the file written is {title}.md where title is
\* the (stripped) heading text with every character other than alphanumerics,
\* whitespace, '-' and '_' dropped; "Hello, World! / Chapter-1_" gives
\* "Hello World Chapter-1_".
Claim_C9 ==
  (pc = "written" /\ soup.title.present) =>
    /\ \A i \in 1..Len(title) : title[i] \in AllowedChars
    /\ LastFile = DropOthers(Trimmed(soup.title.val)) \o <<".", "md">>
    /\ soup.title.val = ExampleHeading => title = ExampleClaimed

\* C9 as amended: in the column flow the file written is {title}.md where
\* title is the heading text, stripped of leading and trailing whitespace and
\* then with every character other than alphanumerics, whitespace, '-' and
\* '_' dropped, so that the example gives "Hello World  Chapter-1_" (two
\* spaces); in the single-article flow title is the stripped heading text,
\* nothing dropped.
Thm_C9 ==
  (pc = "written" /\ soup.title.present) =>
    /\ flow = "column" =>
         /\ \A i \in 1..Len(title) : title[i] \in AllowedChars
         /\ LastFile = DropOthers(Trimmed(soup.title.val)) \o <<".", "md">>
         /\ soup.title.val = ExampleHeading => title = ExampleActual
    /\ flow = "single" => LastFile = Trimmed(soup.title.val) \o <<".", "md">>

\* The example heading, saved by the column flow.
Wit_C9 ==
  /\ pc = "written"
  /\ flow = "column"
  /\ soup.title = Attr(ExampleHeading)
  /\ saved # <<>>

(***************************************************************************)
(* The pagination orchestrator of spec.md 4.7 (its code is not among the   *)
(* sources): a site of MaxPagUrls pages, each with a next-page link that   *)
(* is absent (NoNext), empty (EmptyNext) or names a page.                  *)
(***************************************************************************)
PagUrls == 1..MaxPagUrls
NoNext == 0
EmptyNext == MaxPagUrls + 1
FirstUrl == 1

\* A plausible slip: the visited set is not consulted.
PagStops_NoVisited(n, vis) == n = NoNext \/ n = EmptyNext

\* "If next URL is null, empty, or already in the visited set -> Done"
PagStops(n, vis) == n = NoNext \/ n = EmptyNext \/ n \in vis

InitPag ==
  /\ pc = "start"
  /\ dirs = FALSE
  /\ listing = NoListing
  /\ article_urls = <<>>
  /\ index = 0
  /\ attempted = <<>>
  /\ returned = <<>>
  /\ delays = <<>>
  /\ saved = <<>>
  /\ flow = "column"
  /\ ArticleIdle
  /\ pag_state = "Start"
  /\ pag_url = 0
  /\ visited = {}
  /\ next_of \in [PagUrls -> 0..(MaxPagUrls + 1)]
  /\ pag_saved = {}

\* Start -> FetchingArticle with the column's first-article URL, which is in
\* the visited set before it is fetched.
PagStart ==
  /\ pag_state = "Start"
  /\ pag_state' = "FetchingArticle"
  /\ pag_url' = FirstUrl
  /\ visited' = {FirstUrl}
  /\ UNCHANGED <<next_of, pag_saved, crawl_vars, article_vars>>

\* FetchingArticle: fetch, extract, clean, convert, localize, save; any
\* failure aborts. On success the next-page URL decides: Done, or the URL is
\* added to the visited set and fetched after the delay.
PagProcess ==
  /\ pag_state = "FetchingArticle"
  /\ \E ok \in BOOLEAN :
       IF ~ok
       THEN pag_state' = "Aborted" /\ UNCHANGED <<pag_url, visited, pag_saved>>
       ELSE /\ pag_saved' = pag_saved \cup {pag_url}
            /\ IF PagStops(next_of[pag_url], visited)
               THEN pag_state' = "Done" /\ UNCHANGED <<pag_url, visited>>
               ELSE /\ visited' = visited \cup {next_of[pag_url]}
                    /\ pag_url' = next_of[pag_url]
                    /\ pag_state' = pag_state
  /\ UNCHANGED <<next_of, crawl_vars, article_vars>>

NextPag ==
  \/ PagStart
  \/ PagProcess

\* The program is one thread that runs until it returns.
SpecPag == InitPag /\ [][NextPag]_vars /\ WF_vars(NextPag)

(***************************************************************************)
(* Properties of the pagination crawl (checked under SpecPag).             *)
(***************************************************************************)
Halted == pag_state \in {"Done", "Aborted"}

\* C10: whatever the chain of next-page links (ending, cycling back to a
\* visited page, pointing to itself), the URL being fetched is in the visited
\* set, and the crawl eventually halts in Done or Aborted.
Thm_C10 ==
  /\ [](pag_state = "FetchingArticle" => pag_url \in visited)
  /\ <>Halted

\* A crawl that ended in Done because the next-page link of the last page
\* leads back to a page already visited.
Wit_C10 ==
  /\ pag_state = "Done"
  /\ Cardinality(visited) >= 2
  /\ next_of[pag_url] \in visited

====
